---- MODULE Spec2Model ----
(***************************************************************************)
(* A model of the correspondence-driven overlap of Stable_Anime:           *)
(*   legacy_codes/stable_rendering_algo/overlap/overlap.py  (Overlap)      *)
(*   source/common_utils/stable_render_utils/corr_utils.py  (the kernel)   *)
(* and of the node caches and the engine loop around it:                   *)
(*   source/comfyUI/types/runtime.py     (ComfyCacheDict, NodePool)        *)
(*   source/engine/engine.py             (Engine.run, Engine.Exit)         *)
(* Tensor elements are exact rationals <<n, d>> in lowest terms, d > 0;    *)
(* <<0, 0>> is NaN (the mean of an empty selection).  Batch and channel    *)
(* axes are left out: every operation of the code is pointwise over them.  *)
(***************************************************************************)
EXTENDS Integers, Sequences, FiniteSets, TLC

(***************************************************************************)
(* Bounds of the model.                                                    *)
(***************************************************************************)
\* surface-element ids a correspondence map may hold
NumIds == 2
\* the largest kernel radius the radius scheduler yields
MaxRadius == 1

\* the frames of a stack, T = 3
Frames == 0 .. 2
\* the (height, width) a frame or a map may have: one row, one or two columns
Shapes == {<<1, 1>>, <<1, 2>>}

(***************************************************************************)
(* Exact arithmetic on tensor elements.                                    *)
(***************************************************************************)
NaN == <<0, 0>>

Abs(n) == IF n < 0 THEN -n ELSE n

RECURSIVE GCD(_, _)
GCD(a, b) == IF b = 0 THEN a ELSE GCD(b, a % b)

Norm(n, d) ==
    IF d = 0 THEN NaN
    ELSE LET s == IF d < 0 THEN -1 ELSE 1
             g == GCD(Abs(n), Abs(d))
         IN  <<(s * n) \div g, (s * d) \div g>>

Rat(n) == <<n, 1>>

IsNaN(a) == a[2] = 0

\* operands are in lowest terms; common factors are divided out before the
\* products are taken, which keeps the intermediate integers small
RAdd(a, b) ==
    IF IsNaN(a) \/ IsNaN(b) THEN NaN
    ELSE LET g == GCD(a[2], b[2])
         IN  Norm(a[1] * (b[2] \div g) + b[1] * (a[2] \div g), (a[2] \div g) * b[2])

RMul(a, b) ==
    IF IsNaN(a) \/ IsNaN(b) THEN NaN
    ELSE LET g == GCD(Abs(a[1]), b[2])
             h == GCD(Abs(b[1]), a[2])
         IN  Norm((a[1] \div g) * (b[1] \div h), (a[2] \div h) * (b[2] \div g))

RSub(a, b) == RAdd(a, RMul(Rat(-1), b))

\* a / n for an integer count n; a sum over nothing divided by 0 is NaN
RDivInt(a, n) == IF IsNaN(a) \/ n = 0 THEN NaN ELSE RMul(a, <<1, n>>)

RECURSIVE RSum(_)
RSum(s) == IF s = <<>> THEN Rat(0) ELSE RAdd(s[1], RSum(Tail(s)))

\* torch.Tensor.mean over a sequence of elements
RMean(s) == RDivInt(RSum(s), Len(s))

\* int(x): truncation toward zero
IntTrunc(a) == IF a[1] >= 0 THEN a[1] \div a[2] ELSE -((-a[1]) \div a[2])

\* a >= b; a comparison with NaN is false
RGeq(a, b) == ~IsNaN(a) /\ ~IsNaN(b) /\ a[1] * b[2] >= b[1] * a[2]

Min(a, b) == IF a < b THEN a ELSE b
Max(a, b) == IF a > b THEN a ELSE b


(***************************************************************************)
(* Tensors.  A frame is a [1, w] grid; a list of frames (frame_seq) and    *)
(* the stacked tensor [T, H, W] are both functions from <<f, y, x>> to an  *)
(* element, over the positions the frames' shapes give.                    *)
(***************************************************************************)
PixelsOf(shapes) ==
    UNION {{f} \X (0 .. (shapes[f][1] - 1)) \X (0 .. (shapes[f][2] - 1)) :
             f \in DOMAIN shapes}

\* the order a map builder scans a stack in: by frame, then row, then column
Before(p, q) ==
    \/ p[1] < q[1]
    \/ p[1] = q[1] /\ p[2] < q[2]
    \/ p[1] = q[1] /\ p[2] = q[2] /\ p[3] <= q[3]

RECURSIVE SortedSeq(_)
SortedSeq(S) ==
    IF S = {} THEN <<>>
    ELSE LET m == CHOOSE p \in S : \A q \in S : Before(p, q)
         IN  <<m>> \o SortedSeq(S \ {m})

Range(s) == {s[i] : i \in DOMAIN s}

(***************************************************************************)
(* The consensus algorithms (OverlapAlgorithm.overlap): a tensor of one    *)
(* value per occurrence in, a tensor of the same shape out.                *)
(***************************************************************************)
Algorithms == {"mean", "identity"}

AlgorithmOverlap(alg, seq) ==
    IF alg = "identity" THEN seq
    ELSE [i \in DOMAIN seq |-> RMean(seq)]

(***************************************************************************)
(* Overlap._get_extended_traces: for each trace point the 2R+1 positions   *)
(* (f, clamp(y+i), clamp(x+i)), i = -R .. R, as a sequence.                *)
(***************************************************************************)
ExtendedPoint_OffByOne(kernel_radius, p, max_x, max_y) ==
    [k \in 1 .. Max(2 * kernel_radius + 1, 0) |->
        LET i == k - kernel_radius
        IN  <<p[1], Min(Max(p[2] + i, 0), max_y - 1),
                    Min(Max(p[3] + i, 0), max_x - 1)>>]
ExtendedPoint(kernel_radius, p, max_x, max_y) ==
    [k \in 1 .. Max(2 * kernel_radius + 1, 0) |->
        LET i == k - 1 - kernel_radius
        IN  <<p[1], Min(Max(p[2] + i, 0), max_y - 1),
                    Min(Max(p[3] + i, 0), max_x - 1)>>]

GetExtendedTraces(kernel_radius, trace, max_x, max_y) ==
    [idx \in DOMAIN trace |-> ExtendedPoint(kernel_radius, trace[idx], max_x, max_y)]

(***************************************************************************)
(* One pass of the loop body for an id with a trace of two or more         *)
(* occurrences (overlap.py 129-146).                                       *)
(***************************************************************************)
\* latent_seq: the exact values gathered at the trace (line 136)
LatentSeq(stack, trace) == [i \in DOMAIN trace |-> stack[trace[i]]]

\* average_pool_nearby_pixels_latent_seq: the window means (lines 137-138)
AveragePool_Distinct(stack, ext) ==
    [i \in DOMAIN ext |->
        LET distinct == SortedSeq(Range(ext[i]))
        IN  RMean([k \in DOMAIN distinct |-> stack[distinct[k]]])]
AveragePool(stack, ext) ==
    [i \in DOMAIN ext |-> RMean([k \in DOMAIN ext[i] |-> stack[ext[i][k]]])]

\* alpha * overlapped_seq + (1 - alpha) * latent_seq (line 145)
Blend_Swapped(alpha, overlapped, latent) ==
    RAdd(RMul(alpha, latent), RMul(RSub(Rat(1), alpha), overlapped))
Blend(alpha, overlapped, latent) ==
    RAdd(RMul(alpha, overlapped), RMul(RSub(Rat(1), alpha), latent))

\* the index_put of line 145: position trace[i] receives vals[i]; of the
\* values a repeated position receives, the last one stays
RECURSIVE Scatter(_, _, _)
Scatter(buf, trace, vals) ==
    IF trace = <<>> THEN buf
    ELSE Scatter([buf EXCEPT ![trace[1]] = vals[1]], Tail(trace), Tail(vals))


(***************************************************************************)
(* The inputs of a call.                                                   *)
(***************************************************************************)
\* Python's None where a tensor or a tuple is expected, and where a name is
None == <<>>
NoName == "None"

\* the value of frame f at column x: a level per frame plus 6 per column
FrameLevels == {[f \in Frames |-> 10 * (f + 1)],
                [f \in Frames |-> IF f = 0 THEN 30 ELSE 10]}

FrameSeqOf(shapes, level) ==
    [p \in PixelsOf(shapes) |-> Rat(level[p[1]] + 6 * p[3])]

FrameSeqs(shapes) == {FrameSeqOf(shapes, level) : level \in FrameLevels}

\* the values of a correspondence map's dict, in iteration order: one trace
\* (occurrence list) per id; owner[p] = k says position p shows id k, 0 none.
\* No position is claimed by two ids.  An id without occurrence is left out
\* of a well-formed map and kept with an empty list in a malformed one.
RECURSIVE TracesOf(_, _, _)
TracesOf(owner, k, keep_empty) ==
    IF k > NumIds THEN <<>>
    ELSE LET occ == {p \in DOMAIN owner : owner[p] = k}
         IN  (IF occ = {} /\ ~keep_empty THEN <<>> ELSE <<SortedSeq(occ)>>)
                \o TracesOf(owner, k + 1, keep_empty)

CorrMaps(shape) ==
    {[height |-> shape[1], width |-> shape[2], Map |-> TracesOf(owner, 1, ke)] :
        owner \in [PixelsOf([f \in Frames |-> shape]) -> 0 .. NumIds],
        ke \in BOOLEAN}

\* what alpha_scheduler(step, timestep) returns
AlphaOutputs == {Rat(0), <<1, 2>>, Rat(1)}
\* what kernel_radius_scheduler(step, timestep) returns: 0, or r + 1/2
RadiusOutputs == {Rat(0)} \cup {<<2 * r + 1, 2>> : r \in 1 .. MaxRadius}

\* timestep is None or a number
Timesteps == {"None", "981"}

\* calls with diagnostics off (the engine is looping) and matching shapes
BlendInputs ==
    UNION {[frame_shapes : {[f \in Frames |-> shape]},
            frame_seq : FrameSeqs([f \in Frames |-> shape]),
            corr_map : CorrMaps(shape),
            alpha_out : AlphaOutputs, radius_out : RadiusOutputs,
            algorithm : Algorithms,
            engine_looping : {TRUE}, verbose : {TRUE}, timestep : {"981"}] :
           shape \in Shapes}

\* calls with any diagnostics setting, one scheduler output and algorithm
DiagnosticInputs ==
    {[in EXCEPT !.engine_looping = d[1], !.verbose = d[2], !.timestep = d[3]] :
        in \in {i \in BlendInputs :
                  /\ i.alpha_out = Rat(1)
                  /\ i.radius_out = Rat(0)
                  /\ i.algorithm = "mean"
                  /\ i.frame_seq = FrameSeqOf(i.frame_shapes, [f \in Frames |-> 10 * (f + 1)])},
        d \in BOOLEAN \X BOOLEAN \X Timesteps}

\* calls with frames of any shapes, one map per map shape
ShapeInputs ==
    UNION {[frame_shapes : {shapes},
            frame_seq : {FrameSeqOf(shapes, [f \in Frames |-> 10 * (f + 1)])},
            corr_map : {[height |-> shape[1], width |-> shape[2],
                         Map |-> <<<<<<0, 0, 0>>, <<1, 0, 0>>>>>>]},
            alpha_out : {Rat(1)}, radius_out : {Rat(0)},
            algorithm : {"mean"},
            engine_looping : {TRUE}, verbose : {TRUE}, timestep : {"981"}] :
           shapes \in [Frames -> Shapes], shape \in Shapes}

\* what a radius scheduler that goes below zero returns
NegativeRadiusOutputs == {<<-1, 2>>, <<-3, 2>>}

\* calls whose radius scheduler returns a negative number
NegativeRadiusInputs ==
    {[in EXCEPT !.radius_out = r] :
        in \in {i \in BlendInputs :
                  /\ i.alpha_out = <<1, 2>>
                  /\ i.radius_out = Rat(0)
                  /\ i.algorithm = "mean"
                  /\ i.frame_seq = FrameSeqOf(i.frame_shapes, [f \in Frames |-> 10 * (f + 1)])},
        r \in NegativeRadiusOutputs}

Inputs == BlendInputs \cup DiagnosticInputs \cup ShapeInputs \cup NegativeRadiusInputs


(***************************************************************************)
(* The state of a call of Overlap.__call__.                                *)
(*   storage   the tensor storages: "frame_seq", the caller's frames, and  *)
(*             "stacked", the one torch.stack allocates                    *)
(*   frame_seq_stack, frame_seq_stack_copy                                 *)
(*             the storage each of the two locals refers to               *)
(*   scheduled <<alpha, kernel_radius>> once the schedulers were read      *)
(*   pc        "call" before the call, "loop" in the loop over the ids,    *)
(*             "done" once it returned or raised                           *)
(*   result    "running", "returned", or the exception raised              *)
(*   ret       the stack handed to the caller                              *)
(***************************************************************************)
VARIABLES args, storage, frame_seq_stack, frame_seq_stack_copy,
          scheduled, pc, v_i, len_1_vertex_count, avg_trace_length,
          result, ret

\* the state of a call of taichi_cells_overlap (see below)
VARIABLES id_flatten_maps, origin_values, contributions, new_values, todo,
          total_sim

ovars == <<args, storage, frame_seq_stack, frame_seq_stack_copy,
           scheduled, pc, v_i, len_1_vertex_count, avg_trace_length,
           result, ret>>
kvars == <<id_flatten_maps, origin_values, contributions, new_values, todo,
           total_sim>>

\* the state of a call of value_interpolation (see below)
VARIABLES interp_args, interp_out
ivars == <<interp_args, interp_out>>

\* the state of an adapter object and of a call of it (see below)
VARIABLES adapter, interpolate_mode, frame_seq, apc, aresult, aret
avars == <<adapter, interpolate_mode, frame_seq, apc, aresult, aret>>

\* the ComfyCacheDict objects, the pool they share and the workload (see below)
VARIABLES dicts, ToBeDeleted, destroyed, stores, cursor, walker, deletions
cvars == <<dicts, ToBeDeleted, destroyed, stores, cursor, walker, deletions>>

\* the Engine object and the position of its run() (see below)
VARIABLES stage, exit, epc, invoked, released, frame, runs
evars == <<stage, exit, epc, invoked, released, frame, runs>>

vars == <<ovars, kvars, ivars, avars, cvars, evars>>

\* lines 100-101: the locals alpha and kernel_radius, once the schedulers ran
alpha == scheduled[1]
kernel_radius == scheduled[2]

locals == <<frame_seq_stack, frame_seq_stack_copy, scheduled>>
counters == <<len_1_vertex_count, avg_trace_length>>

\* no call of taichi_cells_overlap, of value_interpolation is under way
IdleKernel ==
    /\ id_flatten_maps = None
    /\ origin_values = None
    /\ contributions = None
    /\ new_values = None
    /\ todo = {}
    /\ total_sim = None

IdleInterp ==
    /\ interp_args = None
    /\ interp_out = None

\* no ComfyCacheDict exists
IdleCache ==
    /\ dicts = None
    /\ ToBeDeleted = None
    /\ destroyed = None
    /\ stores = None
    /\ cursor = 0
    /\ walker = NoName
    /\ deletions = None

\* no Engine exists
IdleEngine ==
    /\ stage = NoName
    /\ exit = FALSE
    /\ epc = "idle"
    /\ invoked = None
    /\ released = None
    /\ frame = 0
    /\ runs = 0

\* no adapter object is being built or called
IdleAdapter ==
    /\ adapter = NoName
    /\ interpolate_mode = NoName
    /\ frame_seq = None
    /\ apc = "idle"
    /\ aresult = "idle"
    /\ aret = None

\* no call of Overlap.__call__ is under way
IdleOverlap ==
    /\ args = None
    /\ storage = None
    /\ frame_seq_stack = NoName
    /\ frame_seq_stack_copy = NoName
    /\ scheduled = None
    /\ pc = "idle"
    /\ v_i = 0
    /\ len_1_vertex_count = 0
    /\ avg_trace_length = 0
    /\ result = "idle"
    /\ ret = None

\* the arguments and the locals of Overlap.__call__ before its first line
Entry(in) ==
    /\ args = [corr_map |-> in.corr_map, frame_shapes |-> in.frame_shapes,
               alpha_out |-> in.alpha_out, radius_out |-> in.radius_out,
               algorithm |-> in.algorithm, timestep |-> in.timestep,
               engine_looping |-> in.engine_looping, verbose |-> in.verbose]
    /\ storage = [b \in {"frame_seq", "stacked"} |->
                    IF b = "frame_seq" THEN in.frame_seq ELSE None]
    /\ frame_seq_stack = NoName
    /\ frame_seq_stack_copy = NoName
    /\ scheduled = None
    /\ v_i = 0
    /\ len_1_vertex_count = 0
    /\ avg_trace_length = 0
    /\ result = "running"
    /\ ret = None

Init ==
    /\ \E in \in Inputs : Entry(in)
    /\ pc = "call"
    /\ IdleKernel
    /\ IdleInterp
    /\ IdleAdapter
    /\ IdleCache
    /\ IdleEngine

\* an exception leaves the call: nothing is returned
Raise(e) ==
    /\ pc' = "done"
    /\ result' = e
    /\ ret' = None

(***************************************************************************)
(* Lines 92-117: the shape check, the stack and its detached alias, the    *)
(* schedulers, the first diagnostics.                                      *)
(***************************************************************************)
\* line 92: the assert looks at frame_seq[0] alone
ShapeMatches_Any(shapes, corr_map) == TRUE
ShapeMatches(shapes, corr_map) == shapes[0] = <<corr_map.height, corr_map.width>>

\* line 96: torch.stack raises unless every tensor has the shape of the first
CanStack(shapes) == \A f \in DOMAIN shapes : shapes[f] = shapes[0]

\* line 96: torch.stack copies its inputs into a storage of its own
TorchStack_InPlace == "frame_seq"
TorchStack == "stacked"

\* line 96: the values of the stacked tensor are those of the frames
StackedValues_Zeros(frames) == [p \in DOMAIN frames |-> Rat(0)]
StackedValues(frames) == frames

\* line 97: Tensor.detach returns a tensor on the storage of its argument
TorchDetach(buffer) == buffer

\* line 109: f"{timestep:.2f}" raises for None
CanFormat(timestep) == timestep # "None"

Call ==
    /\ UNCHANGED <<kvars, ivars, avars, cvars, evars>>
    /\ pc = "call"
    /\ UNCHANGED <<args, counters, v_i>>
    /\ IF ~ShapeMatches(args.frame_shapes, args.corr_map)
       THEN Raise("AssertionError") /\ UNCHANGED <<storage, locals>>
       ELSE IF ~CanStack(args.frame_shapes)
       THEN Raise("RuntimeError") /\ UNCHANGED <<storage, locals>>
       ELSE /\ frame_seq_stack' = TorchStack
            /\ frame_seq_stack_copy' = TorchDetach(TorchStack)
            /\ storage' = [storage EXCEPT ![TorchStack] = StackedValues(storage["frame_seq"])]
            /\ scheduled' = <<args.alpha_out, IntTrunc(args.radius_out)>>
            /\ IF ~args.engine_looping /\ ~CanFormat(args.timestep)
               THEN Raise("TypeError")
               ELSE pc' = "loop" /\ UNCHANGED <<result, ret>>

(***************************************************************************)
(* Lines 119-146: one iteration of the loop over corr_map.Map.values().    *)
(***************************************************************************)
\* line 116: the program constant of the progress bar
ProgressTotal == 100

\* line 116: progress_slice = len(corr_map) // 100
ProgressSlice(corr_map) == Len(corr_map.Map) \div ProgressTotal

\* line 121: v_i % progress_slice is evaluated when the engine is not looping
ProgressRaises == ~args.engine_looping /\ ProgressSlice(args.corr_map) = 0

InLoop == pc = "loop" /\ v_i < Len(args.corr_map.Map)

v_info == args.corr_map.Map[v_i + 1]

\* line 123
IsSingleton_Never(info) == FALSE
IsSingleton(info) == Len(info) = 1

\* line 129: zip(*v_info) yields nothing to unpack for an empty list
CanUnzip_Always(info) == TRUE
CanUnzip(info) == Len(info) # 0

ProgressError ==
    /\ UNCHANGED <<kvars, ivars, avars, cvars, evars>>
    /\ InLoop
    /\ ProgressRaises
    /\ Raise("ZeroDivisionError")
    /\ UNCHANGED <<args, counters, v_i, storage, locals>>

Singleton ==
    /\ UNCHANGED <<kvars, ivars, avars, cvars, evars>>
    /\ InLoop
    /\ ~ProgressRaises
    /\ IsSingleton(v_info)
    /\ len_1_vertex_count' = len_1_vertex_count + 1
    /\ avg_trace_length' = avg_trace_length + 1
    /\ v_i' = v_i + 1
    /\ UNCHANGED <<args, storage, locals, pc, result, ret>>

Malformed ==
    /\ UNCHANGED <<kvars, ivars, avars, cvars, evars>>
    /\ InLoop
    /\ ~ProgressRaises
    /\ ~IsSingleton(v_info)
    /\ ~CanUnzip(v_info)
    /\ Raise("ValueError")
    /\ UNCHANGED <<args, counters, v_i, storage, locals>>

\* lines 129-145 for the trace and the stack read: the storage written
BlendId(stack, trace) ==
    LET frame_w == args.corr_map.width
        frame_h == args.corr_map.height
        ext == GetExtendedTraces(kernel_radius, trace, frame_w, frame_h)
        latent_seq == LatentSeq(stack, trace)
        overlapped_seq == AlgorithmOverlap(args.algorithm, AveragePool(stack, ext))
    IN  [i \in DOMAIN trace |-> Blend(alpha, overlapped_seq[i], latent_seq[i])]

BlendTrace ==
    /\ UNCHANGED <<kvars, ivars, avars, cvars, evars>>
    /\ InLoop
    /\ ~ProgressRaises
    /\ ~IsSingleton(v_info)
    /\ CanUnzip(v_info)
    /\ storage' = [storage EXCEPT ![frame_seq_stack_copy] =
                      Scatter(@, v_info, BlendId(storage[frame_seq_stack], v_info))]
    /\ avg_trace_length' = avg_trace_length + Len(v_info)
    /\ v_i' = v_i + 1
    /\ UNCHANGED <<args, len_1_vertex_count, locals, pc, result, ret>>

\* lines 148-152
Return ==
    /\ UNCHANGED <<kvars, ivars, avars, cvars, evars>>
    /\ pc = "loop"
    /\ v_i = Len(args.corr_map.Map)
    /\ pc' = "done"
    /\ result' = "returned"
    /\ ret' = storage[frame_seq_stack_copy]
    /\ UNCHANGED <<args, counters, v_i, storage, locals>>

Next ==
    \/ Call
    \/ ProgressError
    \/ Singleton
    \/ Malformed
    \/ BlendTrace
    \/ Return

Spec == Init /\ [][Next]_vars


(***************************************************************************)
(* taichi_cells_overlap (corr_utils.py).  id_flatten_maps[<<b, x>>] is the *)
(* identity tuple of pixel x of pair b, contributions[<<b, x>>] its        *)
(* weight, origin_values[<<b, i>>] the value of cell i of pair b (one      *)
(* channel: the channels are summed alike and never compared), and         *)
(* new_values[<<b, i>>] the output slot of that cell.  The kernel's outer  *)
(* loop is parallel: todo holds the cells whose unit of work has not run,  *)
(* total_sim[<<b, i>>] the local total_sim of the unit of that cell when   *)
(* it divided by it.                                                       *)
(***************************************************************************)
\* line 28: the length of an identity tuple
IdentityLen == 4

\* (pairs, cells per pair, pixels per cell) of a call
KernelShapes == {<<2, 1, 2>>, <<1, 2, 2>>, <<2, 2, 1>>}

Identities == {<<1, 2, 3, 4>>, <<1, 2, 3, 5>>, <<0, 2, 3, 4>>}

CellsOf(shape) == (0 .. (shape[1] - 1)) \X (0 .. (shape[2] - 1))
KernelPixelsOf(shape) == (0 .. (shape[1] - 1)) \X (0 .. (shape[2] * shape[3] - 1))

\* a value per cell: 10, 30, 50, ... in ndrange order, or its reverse
CellValues(shape) ==
    {[c \in CellsOf(shape) |-> Rat(10 + 20 * (c[1] * shape[2] + c[2]))],
     [c \in CellsOf(shape) |-> Rat(10 * (shape[1] * shape[2] - c[1] * shape[2] - c[2]))]}

\* what the buffer handed in as new_values holds: zeros, or what is left in it
PriorValues(shape) ==
    {[c \in CellsOf(shape) |-> Rat(0)], [c \in CellsOf(shape) |-> Rat(5 + c[2])]}

KernelInputs ==
    UNION {[id_flatten_maps : [KernelPixelsOf(shape) -> Identities],
            origin_values : CellValues(shape),
            contributions : [KernelPixelsOf(shape) -> {<<1, 2>>, Rat(1)}],
            new_values : PriorValues(shape)] : shape \in KernelShapes}

\* calls whose contributions are of either sign, into a zeroed buffer
SignedInputs ==
    UNION {[id_flatten_maps : [KernelPixelsOf(shape) -> {<<1, 2, 3, 4>>, <<0, 2, 3, 4>>}],
            origin_values : {[c \in CellsOf(shape) |->
                                Rat(10 + 20 * (c[1] * shape[2] + c[2]))]},
            contributions : [KernelPixelsOf(shape) -> {Rat(-1), Rat(1)}],
            new_values : {[c \in CellsOf(shape) |-> Rat(0)]}] : shape \in KernelShapes}

\* lines 15-25
CheckValuesEqual(values, value_len, index_a, index_b) ==
    IF \A i \in 1 .. value_len : values[index_a][i] = values[index_b][i] THEN 1 ELSE 0

\* lines 27-47: the cells are <<b, i>>, the pixels of cell i are
\* i * cell_contains_pixel .. (i + 1) * cell_contains_pixel - 1
GetSimilarity(maps, target, compare, cell_contains_pixel, contrib) ==
    LET target_start == target[2] * cell_contains_pixel
        compare_start == compare[2] * cell_contains_pixel
        n == cell_contains_pixel
        term(k) ==
            LET x == target_start + ((k - 1) \div n)
                i == compare_start + ((k - 1) % n)
                equal == CheckValuesEqual(maps, IdentityLen, <<target[1], x>>, <<compare[1], i>>)
            IN  RMul(RMul(contrib[<<compare[1], i>>], contrib[<<target[1], x>>]), Rat(equal))
    IN  RSum([k \in 1 .. (n * n) |-> term(k)])

\* ti.ndrange(shape[0], shape[1]): the cells, pair by pair
NdRange(cells) == SortedSeq({<<c[1], c[2], 0>> : c \in cells})

\* lines 91-93: the cells the loop of a unit compares its target with
OtherCells(origin, index) ==
    SelectSeq(NdRange(DOMAIN origin), LAMBDA c : <<c[1], c[2]>> # index)

\* line 82: total_sim starts at the weight of the target cell itself
SelfSim_Zero == Rat(0)
SelfSim == Rat(1)

\* lines 82-100: total_sim when line 108 divides by it
TotalSim(maps, origin, index, cell_contains_pixel, contrib) ==
    LET others == OtherCells(origin, index)
    IN  RAdd(SelfSim,
             RSum([k \in DOMAIN others |->
                     GetSimilarity(maps, index, <<others[k][1], others[k][2]>>,
                                   cell_contains_pixel, contrib)]))

\* 1.0 / total_sim (line 108); the quotient by 0.0 is not finite, and
\* neither is any product with it: both are shown as NaN
Reciprocal(a) == IF IsNaN(a) \/ a[1] = 0 THEN NaN ELSE Norm(a[2], a[1])

\* lines 70-108: the unit of work of the target cell; the value it leaves in
\* new_values[index], which held prior when it started
CellValuesOverlap(maps, origin, prior, index, cell_contains_pixel, contrib) ==
    LET others == OtherCells(origin, index)
        sim(k) == GetSimilarity(maps, index, <<others[k][1], others[k][2]>>,
                                cell_contains_pixel, contrib)
        summed == RAdd(RAdd(prior, RMul(origin[index], Rat(1))),
                       RSum([k \in DOMAIN others |->
                               RMul(origin[<<others[k][1], others[k][2]>>], sim(k))]))
    IN  RMul(summed, Reciprocal(TotalSim(maps, origin, index, cell_contains_pixel, contrib)))

\* lines 101-108: new_values after the unit of work of the target cell when
\* _sum_up_values wrote the slot of the compared cell instead of the target's
UnitOfWork_ComparedSlot(maps, origin, buffer, index, cell_contains_pixel, contrib) ==
    [c \in DOMAIN buffer |->
        IF c = index
        THEN RMul(RAdd(buffer[c], RMul(origin[c], Rat(1))),
                  Reciprocal(TotalSim(maps, origin, index, cell_contains_pixel, contrib)))
        ELSE RAdd(buffer[c],
                  RMul(origin[index],
                       GetSimilarity(maps, index, c, cell_contains_pixel, contrib)))]

\* lines 84-108: new_values after the unit of work of the target cell: every
\* _sum_up_values of the unit (lines 84-88, 101-106) and its _mult_values
\* (line 108) are handed index_ivec2 as the slot to write
UnitOfWork(maps, origin, buffer, index, cell_contains_pixel, contrib) ==
    [buffer EXCEPT ![index] =
        CellValuesOverlap(maps, origin, buffer[index], index, cell_contains_pixel, contrib)]

\* line 127
CellContainsPixel ==
    Cardinality({x[2] : x \in DOMAIN id_flatten_maps})
        \div Cardinality({c[2] : c \in DOMAIN origin_values})

InitKernel ==
    /\ \E in \in KernelInputs \cup SignedInputs :
        /\ id_flatten_maps = in.id_flatten_maps
        /\ origin_values = in.origin_values
        /\ contributions = in.contributions
        /\ new_values = in.new_values
        /\ todo = DOMAIN in.origin_values
        /\ total_sim = [c \in DOMAIN in.origin_values |-> None]
    /\ IdleOverlap
    /\ IdleInterp
    /\ IdleAdapter
    /\ IdleCache
    /\ IdleEngine

\* lines 128-134: one iteration of the parallel loop
CellOverlap ==
    /\ \E index \in todo :
        /\ new_values' = UnitOfWork(id_flatten_maps, origin_values, new_values, index,
                                    CellContainsPixel, contributions)
        /\ total_sim' = [total_sim EXCEPT ![index] =
                            TotalSim(id_flatten_maps, origin_values, index,
                                     CellContainsPixel, contributions)]
        /\ todo' = todo \ {index}
    /\ UNCHANGED <<id_flatten_maps, origin_values, contributions>>
    /\ UNCHANGED <<ovars, ivars, avars, cvars, evars>>

NextKernel == CellOverlap

SpecKernel == InitKernel /\ [][NextKernel]_vars

(***************************************************************************)
(* value_interpolation (overlap/utils.py).  x, start, end and power are    *)
(* exact rationals; x_is_tensor says whether x was handed in as a tensor   *)
(* (torch.cos takes no Python number).                                     *)
(***************************************************************************)
Curves == {"constant", "linear", "cosine", "exponential"}

\* a ** n for an integer n >= 0; 0 ** 0 is 1
RECURSIVE RPow(_, _)
RPow(a, n) == IF n = 0 THEN Rat(1) ELSE RMul(a, RPow(a, n - 1))

RECURSIVE IntPow(_, _)
IntPow(r, k) == IF k = 0 THEN 1 ELSE r * IntPow(r, k - 1)

\* base ** e for a base >= 0 that is the e[2]-th power of a rational
Root(n, k) == CHOOSE r \in 0 .. n : IntPow(r, k) = n
RPowRat(base, e) == RPow(<<Root(base[1], e[2]), Root(base[2], e[2])>>, e[1])

\* torch.cos(t * torch.pi) at the arguments where it is rational
CosPiKnown(t) == t \in {Rat(0), <<1, 3>>, <<1, 2>>, <<2, 3>>, Rat(1)}
CosPi(t) ==
    CASE t = Rat(0) -> Rat(1)
      [] t = <<1, 3>> -> <<1, 2>>
      [] t = <<1, 2>> -> Rat(0)
      [] t = <<2, 3>> -> <<-1, 2>>
      [] t = Rat(1) -> Rat(-1)

InterpXs == {<<-1, 2>>, Rat(0), <<1, 2>>, Rat(1), <<3, 2>>}
InterpPowers == {Rat(-1), Rat(0), Rat(1), Rat(2)}
\* <<start, end>>
InterpEnds == {<<Rat(1), Rat(16)>>, <<Rat(16), Rat(1)>>, <<Rat(0), Rat(4)>>}
InterpFunctions == Curves \cup {"quadratic"}

InterpInputs ==
    {in \in [x : InterpXs, power : InterpPowers, ends : InterpEnds,
             interpolate_function : InterpFunctions, x_is_tensor : BOOLEAN] :
        (in.interpolate_function = "cosine" /\ RGeq(in.x, Rat(0)) /\ RGeq(in.power, Rat(0)))
            => CosPiKnown(RPow(in.x, in.power[1]))}

Returns(value) == [result |-> "returned", value |-> value]
Raises(e) == [result |-> e, value |-> None]

\* lines 41-42
AssertsHold_UpperOnly(x, power) == RGeq(Rat(1), x) /\ RGeq(power, Rat(0))
AssertsHold(x, power) == RGeq(x, Rat(0)) /\ RGeq(Rat(1), x) /\ RGeq(power, Rat(0))

\* lines 24-53
ValueInterpolation(x, start, end, power, interpolate_function, x_is_tensor) ==
    IF ~AssertsHold(x, power) THEN Raises("AssertionError")
    ELSE LET t == RPow(x, power[1])
         IN  CASE interpolate_function = "constant" -> Returns(start)
               [] interpolate_function = "linear" ->
                    Returns(RAdd(start, RMul(RSub(end, start), t)))
               [] interpolate_function = "cosine" ->
                    IF ~x_is_tensor THEN Raises("TypeError")
                    ELSE Returns(RAdd(start,
                                      RMul(RMul(RSub(end, start), RAdd(Rat(1), CosPi(t))),
                                           <<1, 2>>)))
               [] interpolate_function = "exponential" ->
                    IF start = Rat(0) THEN Raises("ZeroDivisionError")
                    ELSE Returns(RMul(start, RPowRat(RMul(end, Reciprocal(start)), t)))
               [] OTHER -> Raises("NotImplementedError")

InitInterp ==
    /\ \E in \in InterpInputs : interp_args = in
    /\ interp_out = [result |-> "pending", value |-> None]
    /\ IdleOverlap
    /\ IdleKernel
    /\ IdleAdapter
    /\ IdleCache
    /\ IdleEngine

InterpolateValue ==
    /\ interp_out.result = "pending"
    /\ interp_out' = ValueInterpolation(interp_args.x, interp_args.ends[1],
                                        interp_args.ends[2], interp_args.power,
                                        interp_args.interpolate_function,
                                        interp_args.x_is_tensor)
    /\ UNCHANGED <<interp_args, ovars, kvars, avars, cvars, evars>>

NextInterp == InterpolateValue

SpecInterp == InitInterp /\ [][NextInterp]_vars

(***************************************************************************)
(* The adapters (overlap.py 18-43, 155-244): an object of class Overlap,   *)
(* ResizeOverlap or VAEOverlap is built, then called.                      *)
(*   adapter          the class of the object                              *)
(*   interpolate_mode the mode a ResizeOverlap resizes with                *)
(*   frame_seq        the frames the caller hands to the object            *)
(*   apc              "new" before __init__, "built" or "unbuilt" after    *)
(*                    it, "super" inside super().__call__, "done" after    *)
(*                    the call of a ResizeOverlap                          *)
(*   aresult, aret    how that call ended and the list it returned         *)
(***************************************************************************)
Adapters == {"Overlap", "ResizeOverlap", "VAEOverlap"}

\* lines 23-29: the parameters of Overlap.__init__ besides self
OverlapInitParams ==
    {"alpha_scheduler", "kernel_radius_scheduler", "algorithm", "verbose"}

\* the keywords a subclass hands to super().__init__ (lines 164-169, 236-242)
SuperInitKeywords(cls) ==
    CASE cls = "ResizeOverlap" ->
            {"alpha_scheduler", "kernel_radius_scheduler", "algorithm", "verbose"}
      [] cls = "VAEOverlap" ->
            {"alpha_scheduler", "corr_map_decay_scheduler", "kernel_radius_scheduler",
             "algorithm", "verbose"}
      [] OTHER -> {}

\* a call with a keyword the callee has no parameter for raises TypeError
AcceptsKeywords(params, keywords) == keywords \subseteq params

\* CorrespondenceMap.size
CorrMapSize(corr_map) == <<corr_map.width, corr_map.height>>

\* line 205
SmoothModes == {"linear", "bilinear", "bicubic", "trilinear"}
AlignCorners_Enabled(mode) == IF mode \in SmoothModes THEN "True" ELSE "None"
AlignCorners(mode) == IF mode \in SmoothModes THEN "False" ELSE "None"

\* F.interpolate, mode nearest: the source index of an output index
NearestIndex(dst, in_len, out_len) == Min((dst * in_len) \div out_len, in_len - 1)

\* F.interpolate, mode bilinear: the source coordinate of an output index
LinearSource(dst, in_len, out_len, align_corners) ==
    IF align_corners = "True"
    THEN IF out_len > 1 THEN Norm(dst * (in_len - 1), out_len - 1) ELSE Rat(0)
    ELSE LET c == Norm((2 * dst + 1) * in_len - out_len, 2 * out_len)
         IN  IF c[1] < 0 THEN Rat(0) ELSE c

Lerp(v0, v1, lambda) == RAdd(RMul(RSub(Rat(1), lambda), v0), RMul(lambda, v1))

\* F.interpolate(latents, size, mode, align_corners) on every frame of a list
FInterpolate(values, shapes, size, mode, align_corners) ==
    [p \in PixelsOf([f \in DOMAIN shapes |-> size]) |->
        LET in_h == shapes[p[1]][1]
            in_w == shapes[p[1]][2]
        IN  IF mode = "nearest"
            THEN values[<<p[1], NearestIndex(p[2], in_h, size[1]),
                                NearestIndex(p[3], in_w, size[2])>>]
            ELSE LET sy == LinearSource(p[2], in_h, size[1], align_corners)
                     sx == LinearSource(p[3], in_w, size[2], align_corners)
                     y0 == IntTrunc(sy)
                     x0 == IntTrunc(sx)
                     y1 == Min(y0 + 1, in_h - 1)
                     x1 == Min(x0 + 1, in_w - 1)
                     row(y) == Lerp(values[<<p[1], y, x0>>], values[<<p[1], y, x1>>],
                                    RSub(sx, Rat(x0)))
                 IN  Lerp(row(y0), row(y1), RSub(sy, Rat(y0)))]

\* line 221: torch.where(ovlp != 0, ovlp, original)
TorchWhere_Always(ovlp, original) == ovlp
TorchWhere(ovlp, original) ==
    [p \in DOMAIN ovlp |-> IF ovlp[p] # Rat(0) THEN ovlp[p] ELSE original[p]]

\* line 200
ShortCircuits_Never(a) == FALSE
ShortCircuits(a) == a = Rat(0)

InterpolateModes == {"nearest", "bilinear"}

\* frames of one shape: 10, 20, 30 or -10, 0, 10 at column 0, 6 more at column 1
AdapterFrameSeqs ==
    UNION {{[shapes |-> [f \in Frames |-> shape],
             values |-> FrameSeqOf([f \in Frames |-> shape], level)] :
              level \in {[f \in Frames |-> 10 * (f + 1)], [f \in Frames |-> 10 * (f - 1)]}} :
           shape \in Shapes}

\* the maps in which frames 1 and 2 show the same id at each position
AdapterMaps ==
    UNION {{[height |-> shape[1], width |-> shape[2], Map |-> TracesOf(owner, 1, ke)] :
              owner \in {o \in [PixelsOf([f \in Frames |-> shape]) -> 0 .. NumIds] :
                           \A q \in DOMAIN o : q[1] = 1 => o[q] = o[<<2, q[2], q[3]>>]},
              ke \in BOOLEAN} :
           shape \in Shapes}

AdapterInputs ==
    [adapter : {"ResizeOverlap"}, interpolate_mode : InterpolateModes,
     frame_seq : AdapterFrameSeqs, corr_map : AdapterMaps,
     alpha_out : AlphaOutputs, engine_looping : BOOLEAN]
    \cup
    [adapter : {"Overlap", "VAEOverlap"}, interpolate_mode : {NoName},
     frame_seq : AdapterFrameSeqs, corr_map : AdapterMaps,
     alpha_out : {Rat(1)}, engine_looping : {TRUE}]

NoReturn == [object |-> NoName, shapes |-> None, values |-> None]

InitAdapter ==
    /\ \E in \in AdapterInputs :
        /\ adapter = in.adapter
        /\ interpolate_mode = in.interpolate_mode
        /\ frame_seq = in.frame_seq
        /\ Entry([corr_map |-> in.corr_map, frame_shapes |-> in.frame_seq.shapes,
                  frame_seq |-> in.frame_seq.values,
                  alpha_out |-> in.alpha_out, radius_out |-> Rat(0),
                  algorithm |-> "mean", timestep |-> "981",
                  engine_looping |-> in.engine_looping, verbose |-> TRUE])
    /\ pc = "new"
    /\ apc = "new"
    /\ aresult = "running"
    /\ aret = NoReturn
    /\ IdleKernel
    /\ IdleInterp
    /\ IdleCache
    /\ IdleEngine

\* __init__ of the three classes; a built Overlap is called right away
Construct ==
    /\ apc = "new"
    /\ IF AcceptsKeywords(OverlapInitParams, SuperInitKeywords(adapter))
       THEN /\ apc' = "built"
            /\ pc' = IF adapter = "Overlap" THEN "call" ELSE pc
            /\ UNCHANGED aresult
       ELSE /\ apc' = "unbuilt"
            /\ aresult' = "TypeError"
            /\ UNCHANGED pc
    /\ UNCHANGED <<args, storage, locals, counters, v_i, result, ret>>
    /\ UNCHANGED <<adapter, interpolate_mode, frame_seq, aret>>
    /\ UNCHANGED <<kvars, ivars, cvars, evars>>

\* ResizeOverlap.__call__, lines 196-208: up to the call of super().__call__
ResizeCall ==
    /\ adapter = "ResizeOverlap"
    /\ apc = "built"
    /\ IF ShortCircuits(args.alpha_out)
       THEN /\ apc' = "done"
            /\ aresult' = "returned"
            /\ aret' = [object |-> "frame_seq", shapes |-> frame_seq.shapes,
                        values |-> frame_seq.values]
            /\ UNCHANGED <<args, storage, pc>>
       ELSE LET size == CorrMapSize(args.corr_map)
                screen_w == size[1]
                screen_h == size[2]
                align_corners == AlignCorners(interpolate_mode)
            IN  /\ args' = [args EXCEPT !.frame_shapes =
                                [f \in Frames |-> <<screen_h, screen_w>>]]
                /\ storage' = [storage EXCEPT !["frame_seq"] =
                                  FInterpolate(frame_seq.values, frame_seq.shapes,
                                               <<screen_h, screen_w>>,
                                               interpolate_mode, align_corners)]
                /\ pc' = "call"
                /\ apc' = "super"
                /\ UNCHANGED <<aresult, aret>>
    /\ UNCHANGED <<locals, counters, v_i, result, ret>>
    /\ UNCHANGED <<adapter, interpolate_mode, frame_seq>>
    /\ UNCHANGED <<kvars, ivars, cvars, evars>>

\* lines 216: the stack super().__call__ returned, resized to the shape of
\* the caller's first frame
ResizedBack ==
    FInterpolate(ret, args.frame_shapes, frame_seq.shapes[0],
                 interpolate_mode, AlignCorners(interpolate_mode))

\* ResizeOverlap.__call__, lines 209-222: from the end of super().__call__
ResizeReturn ==
    /\ adapter = "ResizeOverlap"
    /\ apc = "super"
    /\ pc = "done"
    /\ apc' = "done"
    /\ IF result # "returned"
       THEN /\ aresult' = result
            /\ aret' = NoReturn
       ELSE /\ aresult' = "returned"
            /\ aret' = [object |-> "ovlp_seq",
                        shapes |-> [f \in Frames |-> frame_seq.shapes[0]],
                        values |-> TorchWhere(ResizedBack, frame_seq.values)]
    /\ UNCHANGED ovars
    /\ UNCHANGED <<adapter, interpolate_mode, frame_seq>>
    /\ UNCHANGED <<kvars, ivars, cvars, evars>>

NextAdapter ==
    \/ Construct
    \/ ResizeCall
    \/ Call
    \/ ProgressError
    \/ Singleton
    \/ Malformed
    \/ BlendTrace
    \/ Return
    \/ ResizeReturn

SpecAdapter == InitAdapter /\ [][NextAdapter]_vars

(***************************************************************************)
(* The caches (runtime.py 23-185): ComfyCacheDict objects and NodePool,    *)
(* the singleton of a subclass of ComfyCacheDict.                          *)
(*   dicts        per object, its live entries, in insertion order         *)
(*   ToBeDeleted  the class attribute _ToBeDeleted, an OrderedDict: one    *)
(*                pool for every object of the class and its subclasses    *)
(*   destroyed    how many times ON_DESTROY of each node was called        *)
(*   stores       per object, how many values it was handed for the hot    *)
(*                node id                                                  *)
(*   cursor       the last node id the workload has reached                *)
(*   walker       the object that stores and deletes the node ids in turn  *)
(*   deletions    the keys of the pool, longest ago deleted first          *)
(* An entry is [key |-> <<node_id, node_type>>, val |-> <<object that      *)
(* stored it, node_id, number>>].                                          *)
(***************************************************************************)
\* line 36
USELESS_CACHE_MAX_COUNT == 32

\* the values one object is handed for the hot node id
MaxStores == 2

Instances == {"cache", "NodePool"}

\* lines 23, 106
ClassOf(inst) == IF inst = "NodePool" THEN "NodePool" ELSE "ComfyCacheDict"

NodeType == "KSampler"
HotId == 1
LastId == USELESS_CACHE_MAX_COUNT + 2
KeyOf(id) == <<id, NodeType>>

\* dict and OrderedDict (lines 7, 23, 31): key in d, d[key], d.pop(key) and
\* d[key] = val, which keeps the place of a key that is present
Has(d, key) == \E i \in DOMAIN d : d[i].key = key
ValueOf(d, key) == d[CHOOSE i \in DOMAIN d : d[i].key = key].val
Without(d, key) == SelectSeq(d, LAMBDA e : e.key # key)
With(d, key, val) ==
    IF Has(d, key)
    THEN [i \in DOMAIN d |-> IF d[i].key = key THEN [key |-> key, val |-> val] ELSE d[i]]
    ELSE Append(d, [key |-> key, val |-> val])

\* hasattr(node, 'ON_DESTROY'): the nodes are what the NodePool is handed
\* or creates
HasOnDestroy(val) == val[1] = "NodePool"

\* lines 120-124, 164-168, 180-184: ON_DESTROY of every node of a list
RECURSIVE OnDestroy(_, _)
OnDestroy(calls, entries) ==
    IF entries = <<>> THEN calls
    ELSE LET node == Head(entries).val
             called == IF ~HasOnDestroy(node) THEN calls
                       ELSE IF node \in DOMAIN calls
                            THEN [calls EXCEPT ![node] = @ + 1]
                            ELSE calls @@ (node :> 1)
         IN  OnDestroy(called, Tail(entries))

\* lines 46-54, with a key that is a tuple; the old value was dropped when
\* the pool entry was deleted
SetItem(h, inst, key, val) ==
    [h EXCEPT !.pool = Without(h.pool, key),
              !.dicts[inst] = With(h.dicts[inst], key, val)]

\* lines 39-44, with a key that is a tuple
GetItem(h, inst, key) ==
    IF Has(h.pool, key)
    THEN SetItem([h EXCEPT !.pool = Without(h.pool, key)], inst, key, ValueOf(h.pool, key))
    ELSE h

\* lines 56-66
FindByNodeId(h, inst, id) ==
    LET live == SelectSeq(h.dicts[inst], LAMBDA e : e.key[1] = id)
        pooled == SelectSeq(h.pool, LAMBDA e : e.key[1] = id)
    IN  IF live # <<>> THEN h
        ELSE IF pooled # <<>>
             THEN GetItem(SetItem([h EXCEPT !.pool = Without(h.pool, pooled[1].key)],
                                  inst, pooled[1].key, pooled[1].val),
                          inst, pooled[1].key)
             ELSE h

\* lines 81-84 and 116-125
CheckIfNodeShouldBeDeleted(h, inst) ==
    IF Len(h.pool) > USELESS_CACHE_MAX_COUNT
    THEN LET n == USELESS_CACHE_MAX_COUNT \div 2
         IN  [h EXCEPT !.pool = SubSeq(h.pool, n + 1, Len(h.pool)),
                       !.destroyed = IF ClassOf(inst) = "NodePool"
                                     THEN OnDestroy(h.destroyed, SubSeq(h.pool, 1, n))
                                     ELSE h.destroyed]
    ELSE h

\* lines 91-96 and 137-142
Delete(h, inst, key) ==
    IF Has(h.dicts[inst], key)
    THEN CheckIfNodeShouldBeDeleted(
            [h EXCEPT !.pool = With(h.pool, key, ValueOf(h.dicts[inst], key)),
                      !.dicts[inst] = Without(h.dicts[inst], key)],
            inst)
    ELSE h

\* lines 68-70 and 161-169
ClearCache(h, inst) ==
    [h EXCEPT !.pool = <<>>,
              !.destroyed = IF ClassOf(inst) = "NodePool"
                            THEN OnDestroy(h.destroyed, h.pool)
                            ELSE h.destroyed]

\* lines 72-79 and 171-185
Clear(h, inst, clear_cache) ==
    LET h1 == IF clear_cache THEN ClearCache(h, inst) ELSE h
    IN  [h1 EXCEPT !.dicts[inst] = <<>>,
                   !.destroyed = IF ClassOf(inst) = "NodePool"
                                 THEN OnDestroy(h1.destroyed, h1.dicts[inst])
                                 ELSE h1.destroyed]

\* lines 144-159, with the name of a node class; node is the object
\* node_cls() makes when one is needed
GetOrCreate(h, key, node) ==
    IF Has(h.dicts["NodePool"], key) THEN GetItem(h, "NodePool", key)
    ELSE IF Has(h.pool, key)
         THEN SetItem([h EXCEPT !.pool = Without(h.pool, key)], "NodePool", key,
                      ValueOf(h.pool, key))
         ELSE SetItem(h, "NodePool", key, node)

\* the objects and the pool, as one value
Heap == [dicts |-> dicts, pool |-> ToBeDeleted, destroyed |-> destroyed]

\* the keys of a pool, longest ago deleted first, once deleted is the key
\* deleted last; NoName when the call deleted nothing
KeysOf(d) == {d[i].key : i \in DOMAIN d}
TimeOrder(pool, deleted) ==
    LET before == SelectSeq(deletions, LAMBDA k : k # deleted)
        all == IF deleted = NoName THEN before ELSE Append(before, deleted)
    IN  SelectSeq(all, LAMBDA k : k \in KeysOf(pool))

Becomes(h, deleted) ==
    /\ dicts' = h.dicts
    /\ ToBeDeleted' = h.pool
    /\ destroyed' = h.destroyed
    /\ deletions' = TimeOrder(h.pool, deleted)

\* The workload.  The walker stores the node ids 2, 3, ... in turn, each
\* once the one before it is live nowhere; the calls name the node id the
\* walker has reached or, before the walk and once the pool is about to
\* be full, the hot node id.
Live(id) == \E inst \in Instances : Has(dicts[inst], KeyOf(id))
HotPhase == cursor = HotId \/ cursor = USELESS_CACHE_MAX_COUNT
Touched == (IF HotPhase THEN {HotId} ELSE {}) \cup (IF cursor > HotId THEN {cursor} ELSE {})

InitCache ==
    /\ dicts = [inst \in Instances |-> <<>>]
    /\ ToBeDeleted = <<>>
    /\ destroyed = <<>>
    /\ stores = [inst \in Instances |-> 0]
    /\ cursor = HotId
    /\ walker \in Instances
    /\ deletions = <<>>
    /\ IdleOverlap
    /\ IdleKernel
    /\ IdleInterp
    /\ IdleAdapter
    /\ IdleEngine

\* d[key] = val with a new value for the hot node id
CacheSet(inst) ==
    /\ HotPhase
    /\ stores[inst] < MaxStores
    /\ Becomes(SetItem(Heap, inst, KeyOf(HotId), <<inst, HotId, stores[inst]>>), NoName)
    /\ stores' = [stores EXCEPT ![inst] = @ + 1]
    /\ UNCHANGED <<cursor, walker>>
    /\ UNCHANGED <<ovars, kvars, ivars, avars, evars>>

\* d[key] = val by the walker, with the next node id
CacheSetNext ==
    /\ cursor < LastId
    /\ cursor > HotId => ~Live(cursor)
    /\ Becomes(SetItem(Heap, walker, KeyOf(cursor + 1), <<walker, cursor + 1, 0>>), NoName)
    /\ cursor' = cursor + 1
    /\ UNCHANGED <<stores, walker>>
    /\ UNCHANGED <<ovars, kvars, ivars, avars, evars>>

\* d[key]
CacheGet(inst) ==
    /\ \E id \in Touched : Becomes(GetItem(Heap, inst, KeyOf(id)), NoName)
    /\ UNCHANGED <<stores, cursor, walker>>
    /\ UNCHANGED <<ovars, kvars, ivars, avars, evars>>

\* d.find_by_node_id(id)
CacheFind(inst) ==
    /\ \E id \in Touched : Becomes(FindByNodeId(Heap, inst, id), NoName)
    /\ UNCHANGED <<stores, cursor, walker>>
    /\ UNCHANGED <<ovars, kvars, ivars, avars, evars>>

\* d.delete(node_id, node_type)
CacheDelete(inst, id) ==
    /\ id \in Touched
    /\ Becomes(Delete(Heap, inst, KeyOf(id)),
               IF Has(dicts[inst], KeyOf(id)) THEN KeyOf(id) ELSE NoName)
    /\ UNCHANGED <<stores, cursor, walker>>
    /\ UNCHANGED <<ovars, kvars, ivars, avars, evars>>

\* d.clear_cache()
CacheClearCache(inst) ==
    /\ HotPhase
    /\ Becomes(ClearCache(Heap, inst), NoName)
    /\ UNCHANGED <<stores, cursor, walker>>
    /\ UNCHANGED <<ovars, kvars, ivars, avars, evars>>

\* d.clear(clear_cache)
CacheClear(inst) ==
    /\ HotPhase
    /\ \E clear_cache \in BOOLEAN : Becomes(Clear(Heap, inst, clear_cache), NoName)
    /\ UNCHANGED <<stores, cursor, walker>>
    /\ UNCHANGED <<ovars, kvars, ivars, avars, evars>>

\* NodePool.get_or_create(node_id, node_type) for the hot node id
PoolGetOrCreate ==
    /\ HotPhase
    /\ LET key == KeyOf(HotId)
           creates == ~Has(dicts["NodePool"], key) /\ ~Has(ToBeDeleted, key)
       IN  /\ creates => stores["NodePool"] < MaxStores
           /\ Becomes(GetOrCreate(Heap, key, <<"NodePool", HotId, stores["NodePool"]>>),
                      NoName)
           /\ stores' = IF creates THEN [stores EXCEPT !["NodePool"] = @ + 1] ELSE stores
    /\ UNCHANGED <<cursor, walker>>
    /\ UNCHANGED <<ovars, kvars, ivars, avars, evars>>

NextCache ==
    \/ PoolGetOrCreate
    \/ \E inst \in Instances : CacheSet(inst)
    \/ CacheSetNext
    \/ \E inst \in Instances : CacheFind(inst)
    \/ \E inst \in Instances : CacheGet(inst)
    \/ \E inst \in Instances, id \in HotId .. LastId : CacheDelete(inst, id)
    \/ \E inst \in Instances : CacheClearCache(inst)
    \/ \E inst \in Instances : CacheClear(inst)

SpecCache == InitCache /\ [][NextCache]_vars

(***************************************************************************)
(* The engine (engine.py 106-107, 175, 197-206, 276-341): an Engine is     *)
(* built, then run() is called, and called again once it has returned.     *)
(*   stage     self._stage                                                 *)
(*   exit      self._exit                                                  *)
(*   epc       "ready" before the first run(), "returned" after a run(),   *)
(*             inside run() the hook or manager step that is running, or   *)
(*             "loop" at the test of the while loop                        *)
(*   invoked   the stages _OnEngineStageChanged.invoke was handed, each    *)
(*             invoke notifying the listeners once                         *)
(*   released  the steps of the release phase the current run() has taken  *)
(*   frame     the iterations of the loop the current run() has begun      *)
(*   runs      the calls of run() so far                                   *)
(***************************************************************************)
\* the iterations of the loop before the window is closed, the calls of run()
MaxFrames == 2
MaxRuns == 3

\* the hooks and manager steps before the loop and in one iteration of it
PrepareSteps == {"beforePrepare", "_RunPrepare", "afterPrepare"}
FrameSteps == {"beforeFrameBegin", "_RunFrameBegin", "beforeFrameRun", "_RunFrameRun",
               "beforeFrameEnd", "_RunFrameEnd"}
ReleaseSteps == <<"beforeRelease", "_RunRelease", "afterRelease">>

\* lines 106-107 and 175: the object __init__ leaves
InitEngine ==
    /\ stage = "INIT"
    /\ exit = FALSE
    /\ epc = "ready"
    /\ invoked = <<"INIT">>
    /\ released = <<>>
    /\ frame = 0
    /\ runs = 0
    /\ IdleOverlap
    /\ IdleKernel
    /\ IdleInterp
    /\ IdleAdapter
    /\ IdleCache

\* line 203: the setter goes on when the value is not the current stage
StageChanged_Always(old, value) == TRUE
StageChanged(old, value) == value # old

\* lines 201-206: self.Stage = value
SetStage(value) ==
    IF StageChanged(stage, value)
    THEN stage' = value /\ invoked' = Append(invoked, value)
    ELSE UNCHANGED <<stage, invoked>>

\* lines 276-278: Exit(), called by the hook or the manager step that is running
Exit ==
    /\ epc \in PrepareSteps \cup FrameSteps \cup {ReleaseSteps[i] : i \in 1 .. 3}
    /\ exit' = TRUE
    /\ UNCHANGED <<stage, epc, invoked, released, frame, runs>>
    /\ UNCHANGED <<ovars, kvars, ivars, avars, cvars>>

\* lines 286-291: run() is entered, up to the call of beforePrepare
RunBegin ==
    /\ epc \in {"ready", "returned"}
    /\ runs < MaxRuns
    /\ runs' = runs + 1
    /\ SetStage("BEFORE_PREPARE")
    /\ epc' = "beforePrepare"
    /\ released' = <<>>
    /\ frame' = 0
    /\ UNCHANGED exit
    /\ UNCHANGED <<ovars, kvars, ivars, avars, cvars>>

\* lines 291-293 and 295-297: beforePrepare or Manager._RunPrepare ends
Prepare ==
    /\ epc \in {"beforePrepare", "_RunPrepare"}
    /\ epc' = IF exit THEN "returned"
              ELSE IF epc = "beforePrepare" THEN "_RunPrepare" ELSE "afterPrepare"
    /\ UNCHANGED <<stage, exit, invoked, released, frame, runs>>
    /\ UNCHANGED <<ovars, kvars, ivars, avars, cvars>>

\* lines 299-303: afterPrepare ends
AfterPrepare ==
    /\ epc = "afterPrepare"
    /\ IF exit
       THEN epc' = "returned" /\ UNCHANGED <<stage, invoked>>
       ELSE epc' = "loop" /\ SetStage("AFTER_PREPARE")
    /\ UNCHANGED <<exit, released, frame, runs>>
    /\ UNCHANGED <<ovars, kvars, ivars, avars, cvars>>

\* lines 332-335: the loop is left, up to the call of beforeRelease
ToRelease ==
    /\ SetStage("BEFORE_RELEASE")
    /\ epc' = "beforeRelease"

\* lines 306-309: the test of the loop, with what glfw.window_should_close
\* answers, up to the call of beforeFrameBegin
Loop ==
    /\ epc = "loop"
    /\ \E window_should_close \in BOOLEAN :
        /\ frame = MaxFrames => window_should_close
        /\ IF ~exit /\ ~window_should_close
           THEN /\ SetStage("BEFORE_FRAME_BEGIN")
                /\ epc' = "beforeFrameBegin"
                /\ frame' = frame + 1
           ELSE /\ ToRelease
                /\ UNCHANGED frame
    /\ UNCHANGED <<exit, released, runs>>
    /\ UNCHANGED <<ovars, kvars, ivars, avars, cvars>>

\* lines 309-311, 317-319 and 325-327: a hook of the frame ends
FrameHook ==
    /\ epc \in {"beforeFrameBegin", "beforeFrameRun", "beforeFrameEnd"}
    /\ IF exit THEN ToRelease
       ELSE /\ epc' = CASE epc = "beforeFrameBegin" -> "_RunFrameBegin"
                        [] epc = "beforeFrameRun" -> "_RunFrameRun"
                        [] epc = "beforeFrameEnd" -> "_RunFrameEnd"
            /\ UNCHANGED <<stage, invoked>>
    /\ UNCHANGED <<exit, released, frame, runs>>
    /\ UNCHANGED <<ovars, kvars, ivars, avars, cvars>>

\* lines 312-316, 320-324 and 328-330: a manager step of the frame ends
FrameRun ==
    /\ epc \in {"_RunFrameBegin", "_RunFrameRun", "_RunFrameEnd"}
    /\ IF exit THEN ToRelease
       ELSE CASE epc = "_RunFrameBegin" ->
                    SetStage("BEFORE_FRAME_RUN") /\ epc' = "beforeFrameRun"
              [] epc = "_RunFrameRun" ->
                    SetStage("BEFORE_FRAME_END") /\ epc' = "beforeFrameEnd"
              [] epc = "_RunFrameEnd" ->
                    epc' = "loop" /\ UNCHANGED <<stage, invoked>>
    /\ UNCHANGED <<exit, released, frame, runs>>
    /\ UNCHANGED <<ovars, kvars, ivars, avars, cvars>>

\* lines 335-338: beforeRelease or Manager._RunRelease ends
Release ==
    /\ epc \in {"beforeRelease", "_RunRelease"}
    /\ released' = Append(released, epc)
    /\ epc' = IF epc = "beforeRelease" THEN "_RunRelease" ELSE "afterRelease"
    /\ UNCHANGED <<stage, exit, invoked, frame, runs>>
    /\ UNCHANGED <<ovars, kvars, ivars, avars, cvars>>

\* lines 338-341: afterRelease ends and run() returns
AfterRelease ==
    /\ epc = "afterRelease"
    /\ released' = Append(released, epc)
    /\ SetStage("ENDED")
    /\ epc' = "returned"
    /\ UNCHANGED <<exit, frame, runs>>
    /\ UNCHANGED <<ovars, kvars, ivars, avars, cvars>>

NextEngine ==
    \/ Exit
    \/ RunBegin
    \/ Prepare
    \/ AfterPrepare
    \/ Loop
    \/ FrameHook
    \/ FrameRun
    \/ Release
    \/ AfterRelease

SpecEngine == InitEngine /\ [][NextEngine]_vars

(***************************************************************************)
(* What the loop of lines 119-146 makes of a stack when it takes the       *)
(* traces of the map in a given order and no diagnostic statement runs.    *)
(***************************************************************************)
\* the storages right after lines 96-97
StackedStorage(frames) ==
    [b \in DOMAIN storage |-> IF b = "frame_seq" THEN frames ELSE StackedValues(frames)]

RECURSIVE LoopOutcome(_, _, _, _)
LoopOutcome(st, Map, order, k) ==
    IF k > Len(Map) THEN [result |-> "returned", ret |-> st[frame_seq_stack_copy]]
    ELSE LET info == Map[order[k]]
         IN  IF IsSingleton(info) THEN LoopOutcome(st, Map, order, k + 1)
             ELSE IF ~CanUnzip(info) THEN [result |-> "ValueError", ret |-> None]
             ELSE LoopOutcome(
                    [st EXCEPT ![frame_seq_stack_copy] =
                        Scatter(@, info, BlendId(st[frame_seq_stack], info))],
                    Map, order, k + 1)

\* the orders n ids can be taken in
Orders(n) == {o \in [1 .. n -> 1 .. n] : \A i, j \in 1 .. n : o[i] = o[j] => i = j}

MapOrder(Map) == [i \in 1 .. Len(Map) |-> i]

Input == storage["frame_seq"]
TheMap == args.corr_map.Map
Returned == pc = "done" /\ result = "returned"
Failed == pc = "done" /\ result # "returned"

\* the positions written: the occurrences of the ids with two or more of them
BlendedPositions == UNION {Range(TheMap[i]) : i \in {j \in DOMAIN TheMap : Len(TheMap[j]) >= 2}}

NoAliasing ==
    \A i, j \in DOMAIN TheMap : i # j => Range(TheMap[i]) \cap Range(TheMap[j]) = {}

(***************************************************************************)
(* C1.  For a map in which no (frame, position) belongs to two ids, the    *)
(* stack Overlap.__call__ returns is the same for every order the ids are  *)
(* processed in, also when the windows of two ids share read positions.    *)
(***************************************************************************)
C1_OrderIndependent ==
    (Returned /\ NoAliasing) =>
        \A o \in Orders(Len(TheMap)) :
            LoopOutcome(StackedStorage(Input), TheMap, o, 1).ret = ret

(***************************************************************************)
(* C2.  For an id with two or more occurrences, the value written at each  *)
(* occurrence is alpha * consensus + (1 - alpha) * the input's value       *)
(* there, consensus being the algorithm's result on the window means; with *)
(* radius 0 the window means are the input's values at the occurrences, so *)
(* that alpha = 1 writes the consensus of those alone; a mean consensus    *)
(* over 10, 20, 30 writes 20, 20, 20 for alpha = 1 and 15, 20, 25 for      *)
(* alpha = 1/2.                                                            *)
(***************************************************************************)
ScenarioTrace == <<<<0, 0, 0>>, <<1, 0, 0>>, <<2, 0, 0>>>>

C2_Step ==
    LET trace == v_info
        ext == GetExtendedTraces(kernel_radius, trace,
                                 args.corr_map.width, args.corr_map.height)
        consensus == AlgorithmOverlap(args.algorithm,
                                      AveragePool(storage[frame_seq_stack], ext))
        exact == [i \in DOMAIN trace |-> Input[trace[i]]]
        written == [i \in DOMAIN trace |-> storage'[frame_seq_stack_copy][trace[i]]]
    IN  (InLoop /\ v_i' = v_i + 1 /\ Len(trace) >= 2) =>
            /\ \A i \in DOMAIN trace :
                  written[i] = RAdd(RMul(alpha, consensus[i]),
                                    RMul(RSub(Rat(1), alpha), exact[i]))
            /\ kernel_radius = 0 =>
                  consensus = AlgorithmOverlap(args.algorithm, exact)
            /\ (kernel_radius = 0 /\ alpha = Rat(1)) =>
                  written = AlgorithmOverlap(args.algorithm, exact)
            /\ ( /\ trace = ScenarioTrace
                 /\ exact = <<Rat(10), Rat(20), Rat(30)>>
                 /\ kernel_radius = 0
                 /\ args.algorithm = "mean" ) =>
                  /\ alpha = Rat(1) => written = <<Rat(20), Rat(20), Rat(20)>>
                  /\ alpha = <<1, 2>> => written = <<Rat(15), Rat(20), Rat(25)>>

C2_BlendFormula == [][C2_Step]_vars

C2_Witness ==
    /\ Returned
    /\ TheMap = <<ScenarioTrace>>
    /\ kernel_radius = 0
    /\ alpha = <<1, 2>>
    /\ args.algorithm = "mean"
    /\ [i \in 1 .. 3 |-> Input[ScenarioTrace[i]]] = <<Rat(10), Rat(20), Rat(30)>>
    /\ [i \in 1 .. 3 |-> ret[ScenarioTrace[i]]] = <<Rat(15), Rat(20), Rat(25)>>

(***************************************************************************)
(* C3.  When every id of the map has exactly one occurrence, no position   *)
(* of the stack is rewritten, each id visited is counted as a singleton,   *)
(* and the stack returned equals the input, for any alpha and radius.      *)
(***************************************************************************)
AllSingletons == \A i \in DOMAIN TheMap : Len(TheMap[i]) = 1

C3_SingletonsIdentity ==
    AllSingletons =>
        /\ pc = "loop" =>
              /\ storage[frame_seq_stack_copy] = Input
              /\ len_1_vertex_count = v_i
        /\ Returned =>
              /\ ret = Input
              /\ len_1_vertex_count = Len(TheMap)

C3_Witness ==
    /\ Returned
    /\ AllSingletons
    /\ Len(TheMap) = 2
    /\ len_1_vertex_count = 2
    /\ kernel_radius = 1
    /\ alpha = Rat(1)
    /\ ret = Input

(***************************************************************************)
(* C4.  Every position that is not an occurrence of an id with two or      *)
(* more occurrences holds the input's value, in the output buffer at any   *)
(* time of the pass and in the stack returned.                             *)
(***************************************************************************)
C4_UnvisitedUntouched ==
    /\ pc = "loop" =>
          \A p \in (DOMAIN Input) \ BlendedPositions :
              storage[frame_seq_stack_copy][p] = Input[p]
    /\ Returned =>
          \A p \in (DOMAIN Input) \ BlendedPositions : ret[p] = Input[p]

C4_Witness ==
    /\ Returned
    /\ kernel_radius = 1
    /\ alpha = Rat(1)
    /\ \E p \in DOMAIN Input : p \in BlendedPositions /\ ret[p] # Input[p]
    /\ \E p \in DOMAIN Input :
          /\ p \notin BlendedPositions
          /\ \E q \in BlendedPositions : q[1] = p[1]
          /\ ret[p] = Input[p]
          /\ ret[p] # Rat(0)

(***************************************************************************)
(* C5.  No step of a call changes the caller's frames, and a call that     *)
(* raised, also after it blended earlier ids, hands no stack to the caller.*)
(***************************************************************************)
C5_Step ==
    /\ storage'["frame_seq"] = storage["frame_seq"]
    /\ (pc' = "done" /\ result' # "returned") => ret' = None

C5_InputUntouched == [][C5_Step]_vars

C5_Witness ==
    /\ Failed
    /\ result = "ValueError"
    /\ v_i >= 1
    /\ storage[frame_seq_stack_copy] # Input
    /\ ret = None


(***************************************************************************)
(* C6.  With the Identity algorithm the stack returned equals the input,   *)
(* for every alpha, radius and map (the claim as stated).                  *)
(***************************************************************************)
C6_IdentityNoOp ==
    (Returned /\ args.algorithm = "identity") => ret = Input

(***************************************************************************)
(* C6, amended.  With the Identity algorithm and kernel radius 0 the stack *)
(* returned equals the input, for every alpha and map, and the loop run    *)
(* again on the stack returned gives that stack again.                     *)
(***************************************************************************)
C6_IdentityNoOpRadius0 ==
    (Returned /\ args.algorithm = "identity" /\ kernel_radius = 0) =>
        /\ ret = Input
        /\ LoopOutcome(StackedStorage(ret), TheMap, MapOrder(TheMap), 1)
              = [result |-> "returned", ret |-> ret]

C6_Witness ==
    /\ Returned
    /\ args.algorithm = "identity"
    /\ kernel_radius = 0
    /\ alpha = <<1, 2>>
    /\ \E i \in DOMAIN TheMap : Len(TheMap[i]) >= 2
    /\ ret = Input

(***************************************************************************)
(* C7.  When the shape of some frame differs from the map's declared       *)
(* (height, width), the call ends with a shape error and has not read the  *)
(* schedulers, allocated or written a stack; when all agree it ends with   *)
(* no shape error.                                                         *)
(***************************************************************************)
ShapeMismatch ==
    \E f \in Frames :
        args.frame_shapes[f] # <<args.corr_map.height, args.corr_map.width>>

ShapeErrors == {"AssertionError", "RuntimeError"}

C7_ShapeChecked ==
    pc # "call" =>
        IF ShapeMismatch
        THEN /\ pc = "done"
             /\ result \in ShapeErrors
             /\ scheduled = None
             /\ storage["stacked"] = None
             /\ ret = None
        ELSE result \notin ShapeErrors

C7_Witness ==
    /\ pc = "done"
    /\ result = "AssertionError"
    /\ args.frame_shapes[0] # <<args.corr_map.height, args.corr_map.width>>
    /\ args.frame_shapes[1] = <<args.corr_map.height, args.corr_map.width>>
    /\ scheduled = None

(***************************************************************************)
(* C8.  When some id of the map has an empty occurrence list the call      *)
(* never returns a stack: the loop does not get past that id, wherever it  *)
(* sits in the iteration order, and the call ends with an exception.       *)
(***************************************************************************)
HasEmptyTrace == \E i \in DOMAIN TheMap : Len(TheMap[i]) = 0

C8_EmptyTraceFails ==
    HasEmptyTrace =>
        /\ result # "returned"
        /\ \A i \in 1 .. v_i : Len(TheMap[i]) # 0
        /\ pc = "done" => ret = None

C8_Witness ==
    /\ Failed
    /\ result = "ValueError"
    /\ v_i = 1
    /\ Len(TheMap[1]) >= 2
    /\ Len(TheMap[2]) = 0

(***************************************************************************)
(* C9.  Whether a call succeeds, and the stack it returns, are those of    *)
(* the same call with no diagnostic statement run: they do not depend on   *)
(* engine_looping, verbose, the number of ids of the map or the timestep.  *)
(***************************************************************************)
QuietOutcome ==
    IF ~ShapeMatches(args.frame_shapes, args.corr_map) \/ ~CanStack(args.frame_shapes)
    THEN [result |-> "ShapeError", ret |-> None]
    ELSE LoopOutcome(StackedStorage(Input), TheMap, MapOrder(TheMap), 1)

C9_DiagnosticsNeverGate ==
    pc = "done" =>
        /\ (result = "returned") = (QuietOutcome.result = "returned")
        /\ ret = QuietOutcome.ret


(***************************************************************************)
(* C10.  Once the unit of work of a target cell (p, i) has run, its output *)
(* slot holds (values[p,i] + sum of sim * values[q,j] over the other cells *)
(* (q, j)) / (1 + sum of sim), sim being the sum over the pixel pairs x of *)
(* cell (p, i) and y of cell (q, j) with equal identity tuples of          *)
(* contributions[p,x] * contributions[q,y].                                *)
(***************************************************************************)
SameIdentity(a, b) == \A n \in 1 .. 4 : id_flatten_maps[a][n] = id_flatten_maps[b][n]

PixelsOfCell(c) ==
    {x \in DOMAIN id_flatten_maps :
        x[1] = c[1] /\ x[2] \div CellContainsPixel = c[2]}

RECURSIVE SumSimilar(_)
SumSimilar(pairs) ==
    IF pairs = {} THEN Rat(0)
    ELSE LET xy == CHOOSE xy \in pairs : TRUE
         IN  RAdd(IF SameIdentity(xy[1], xy[2])
                  THEN RMul(contributions[xy[1]], contributions[xy[2]])
                  ELSE Rat(0),
                  SumSimilar(pairs \ {xy}))

Similarity(c, d) == SumSimilar(PixelsOfCell(c) \X PixelsOfCell(d))

RECURSIVE WeightedSum(_, _, _)
WeightedSum(c, others, weigh_values) ==
    IF others = {} THEN Rat(0)
    ELSE LET d == CHOOSE d \in others : TRUE
         IN  RAdd(IF weigh_values THEN RMul(Similarity(c, d), origin_values[d])
                  ELSE Similarity(c, d),
                  WeightedSum(c, others \ {d}, weigh_values))

ExpectedOutput(c) ==
    LET others == (DOMAIN origin_values) \ {c}
        value == RAdd(origin_values[c], WeightedSum(c, others, TRUE))
        weight == RAdd(Rat(1), WeightedSum(c, others, FALSE))
    IN  IF weight[1] = 0 THEN NaN ELSE RMul(value, Norm(weight[2], weight[1]))

C10_WeightedMean ==
    pc = "idle" =>
        \A c \in (DOMAIN origin_values) \ todo : new_values[c] = ExpectedOutput(c)

(***************************************************************************)
(* C11.  When every pixel carries the same identity tuple and every        *)
(* contribution is 1, the unit of work of each cell leaves in its output   *)
(* slot the unweighted arithmetic mean of the values of all the cells, for *)
(* any number of cells and of pixels per cell.                             *)
(***************************************************************************)
Processed == (DOMAIN origin_values) \ todo

AllSameIdentity ==
    \A x, y \in DOMAIN id_flatten_maps : id_flatten_maps[x] = id_flatten_maps[y]

AllContributionsOne == \A x \in DOMAIN contributions : contributions[x] = Rat(1)

MeanOfCells ==
    LET cells == NdRange(DOMAIN origin_values)
    IN  RMean([k \in DOMAIN cells |-> origin_values[<<cells[k][1], cells[k][2]>>]])

C11_UniformMean ==
    (pc = "idle" /\ AllSameIdentity /\ AllContributionsOne) =>
        \A c \in Processed : new_values[c] = MeanOfCells

(***************************************************************************)
(* C12.  When no pixel of a cell has the identity tuple of a pixel of      *)
(* another cell, the unit of work of each cell leaves in its output slot   *)
(* the cell's own original value, for any contributions.                   *)
(***************************************************************************)
CellsDisjoint ==
    \A c, d \in DOMAIN origin_values :
        c # d => \A x \in PixelsOfCell(c), y \in PixelsOfCell(d) : ~SameIdentity(x, y)

C12_DisjointUnchanged ==
    (pc = "idle" /\ CellsDisjoint) =>
        \A c \in Processed : new_values[c] = origin_values[c]

(***************************************************************************)
(* C13.  For every input, contributions of any sign included, total_sim is *)
(* at least 1 when a unit of work divides by it (the claim as stated).     *)
(***************************************************************************)
C13_WeightAtLeastOne ==
    pc = "idle" => \A c \in Processed : RGeq(total_sim[c], Rat(1))

(***************************************************************************)
(* C13, amended.  When no contribution is negative, total_sim is at least  *)
(* 1 when a unit of work divides by it, and the slot it writes is finite.  *)
(***************************************************************************)
NoNegativeContribution ==
    \A x \in DOMAIN contributions : RGeq(contributions[x], Rat(0))

C13_WeightAtLeastOneNonNegative ==
    (pc = "idle" /\ NoNegativeContribution) =>
        \A c \in Processed : RGeq(total_sim[c], Rat(1)) /\ ~IsNaN(new_values[c])

C13_Witness ==
    /\ pc = "idle"
    /\ NoNegativeContribution
    /\ todo = {}
    /\ \E c \in Processed : total_sim[c] = Rat(1)
    /\ \E c \in Processed : total_sim[c] = <<3, 2>>

(***************************************************************************)
(* C18.  During a pass the stack the ids gather from is not the buffer the *)
(* blends are written to, and it holds the input's values at every time,   *)
(* whichever ids were processed before.                                    *)
(***************************************************************************)
C18_GatherStackUnmodified ==
    (pc \in {"loop", "done"} /\ frame_seq_stack # NoName) =>
        /\ frame_seq_stack # frame_seq_stack_copy
        /\ storage[frame_seq_stack] = Input

(***************************************************************************)
(* C19.  For a radius R >= 0 and a trace of L points the extended trace    *)
(* has L windows of 2R+1 entries; entry d = -R .. R of the window of       *)
(* (f, y, x) is (f, clamp(y+d, 0, H-1), clamp(x+d, 0, W-1)), a position of *)
(* the stack; and the window mean is the sum over d of the stack's values  *)
(* at these entries divided by 2R+1, a position that clamping repeats      *)
(* being added once per entry.                                             *)
(***************************************************************************)
Clamp(v, lo, hi) == IF v < lo THEN lo ELSE IF v > hi THEN hi ELSE v

WindowEntry(p, d) ==
    <<p[1], Clamp(p[2] + d, 0, args.corr_map.height - 1),
            Clamp(p[3] + d, 0, args.corr_map.width - 1)>>

RECURSIVE WindowSum(_, _, _, _)
WindowSum(stack, p, d, R) ==
    IF d > R THEN Rat(0)
    ELSE RAdd(stack[WindowEntry(p, d)], WindowSum(stack, p, d + 1, R))

C19_Step ==
    LET R == kernel_radius
        trace == v_info
        stack == storage[frame_seq_stack]
        ext == GetExtendedTraces(R, trace, args.corr_map.width, args.corr_map.height)
    IN  (InLoop /\ v_i' = v_i + 1 /\ Len(trace) >= 2 /\ R >= 0) =>
            /\ Len(ext) = Len(trace)
            /\ \A i \in DOMAIN trace :
                  /\ Len(ext[i]) = 2 * R + 1
                  /\ \A d \in (-R) .. R :
                        /\ ext[i][d + R + 1] = WindowEntry(trace[i], d)
                        /\ ext[i][d + R + 1] \in DOMAIN stack
            /\ (args.algorithm = "identity" /\ alpha = Rat(1)) =>
                  \A i \in DOMAIN trace :
                      storage'[frame_seq_stack_copy][trace[i]]
                          = RDivInt(WindowSum(stack, trace[i], -R, R), 2 * R + 1)

C20_RadiusClamped ==
    (pc \in {"loop", "done"} /\ scheduled # None) =>
        /\ kernel_radius = Max(IntTrunc(args.radius_out), 0)
        /\ \A i \in DOMAIN TheMap :
              LET ext == GetExtendedTraces(kernel_radius, TheMap[i],
                                           args.corr_map.width, args.corr_map.height)
              IN  \A j \in DOMAIN ext : Len(ext[j]) >= 1

(***************************************************************************)
(* C17.  value_interpolation raises an error and returns no value whenever *)
(* x < 0, x > 1, power < 0 or the curve name is none of constant, linear,  *)
(* cosine, exponential: for every curve, constant included, and for every  *)
(* combination of these conditions.                                        *)
(***************************************************************************)
InvalidArguments ==
    \/ ~RGeq(interp_args.x, Rat(0))
    \/ ~RGeq(Rat(1), interp_args.x)
    \/ ~RGeq(interp_args.power, Rat(0))
    \/ interp_args.interpolate_function
           \notin {"constant", "linear", "cosine", "exponential"}

C17_InvalidArgumentsRaise ==
    (interp_out.result # "pending" /\ InvalidArguments) =>
        /\ interp_out.result \in {"AssertionError", "NotImplementedError"}
        /\ interp_out.value = None

C17_Witness ==
    /\ interp_out.result = "AssertionError"
    /\ interp_args.interpolate_function = "constant"
    /\ interp_args.x = <<-1, 2>>
    /\ interp_args.power = Rat(1)

(***************************************************************************)
(* C14.  When the alpha scheduler yields exactly 0, a call of a            *)
(* ResizeOverlap returns the list of frames it was handed, with the same   *)
(* shapes and values, resizes nothing and never enters Overlap.__call__,   *)
(* whatever the resolution of the frames and of the map.                   *)
(***************************************************************************)
C14_AlphaZeroShortCircuit ==
    (adapter = "ResizeOverlap" /\ apc \notin {"new", "built"} /\ args.alpha_out = Rat(0)) =>
        /\ apc = "done"
        /\ aresult = "returned"
        /\ aret = [object |-> "frame_seq", shapes |-> frame_seq.shapes,
                   values |-> frame_seq.values]
        /\ pc = "new"
        /\ args.frame_shapes = frame_seq.shapes
        /\ storage["frame_seq"] = frame_seq.values
        /\ storage["stacked"] = None

C14_Witness ==
    /\ adapter = "ResizeOverlap"
    /\ apc = "done"
    /\ args.alpha_out = Rat(0)
    /\ frame_seq.shapes[0] = <<1, 2>>
    /\ <<args.corr_map.height, args.corr_map.width>> = <<1, 1>>
    /\ \E i \in DOMAIN TheMap : Len(TheMap[i]) >= 2
    /\ aret.object = "frame_seq"
    /\ aret.values = frame_seq.values

(***************************************************************************)
(* C15.  When alpha is not 0 and the call of a ResizeOverlap returns, it   *)
(* returns one frame per input frame, each of the input's resolution, and  *)
(* each element is the blended stack's value resized back where that is    *)
(* not exactly zero and the caller's original value where it is; a resize  *)
(* between equal resolutions in mode nearest changes no value.             *)
(***************************************************************************)
C15_ResizeMerge ==
    (adapter = "ResizeOverlap" /\ apc = "done" /\ aresult = "returned"
        /\ args.alpha_out # Rat(0)) =>
        /\ aret.object = "ovlp_seq"
        /\ aret.shapes = frame_seq.shapes
        /\ DOMAIN aret.values = DOMAIN frame_seq.values
        /\ \A p \in DOMAIN aret.values :
              aret.values[p] = IF ResizedBack[p] # Rat(0) THEN ResizedBack[p]
                               ELSE frame_seq.values[p]
        /\ (interpolate_mode = "nearest" /\ args.frame_shapes = frame_seq.shapes) =>
              /\ ResizedBack = ret
              /\ Input = frame_seq.values

C15_Witness ==
    /\ adapter = "ResizeOverlap"
    /\ apc = "done"
    /\ aresult = "returned"
    /\ args.alpha_out = Rat(1)
    /\ \E p \in DOMAIN aret.values :
          /\ ResizedBack[p] = Rat(0)
          /\ frame_seq.values[p] # Rat(0)
          /\ aret.values[p] = frame_seq.values[p]
    /\ \E p \in DOMAIN aret.values :
          /\ ResizedBack[p] # Rat(0)
          /\ ResizedBack[p] # frame_seq.values[p]
          /\ aret.values[p] = ResizedBack[p]

(***************************************************************************)
(* C16.  An object of each of the three classes can be built: __init__     *)
(* of Overlap, of ResizeOverlap and of VAEOverlap ends without an          *)
(* exception and leaves an object that can be called.                      *)
(***************************************************************************)
C16_AdaptersConstructible ==
    apc # "new" => (apc # "unbuilt" /\ aresult # "TypeError")

(***************************************************************************)
(* C23.  The output of taichi_cells_overlap does not depend on what the    *)
(* output buffer held before the call: the slot of every processed cell    *)
(* holds the value the same call leaves in a buffer of zeros.              *)
(***************************************************************************)
C23_PriorBufferIgnored ==
    \A c \in Processed :
        new_values[c] = CellValuesOverlap(id_flatten_maps, origin_values, Rat(0), c,
                                          CellContainsPixel, contributions)

(***************************************************************************)
(* C24.  The unit of work of a target cell writes its own slot of          *)
(* new_values and nothing else, never an input array; whatever the order   *)
(* of the units, the buffer they leave is the one determined, slot by      *)
(* slot, by the inputs and by what the slot held when the call began.      *)
(***************************************************************************)
BufferOf(prior) ==
    [c \in DOMAIN prior |->
        CellValuesOverlap(id_flatten_maps, origin_values, prior[c], c,
                          CellContainsPixel, contributions)]

HandedBuffers ==
    {prior \in UNION {PriorValues(shape) : shape \in KernelShapes} :
        DOMAIN prior = DOMAIN origin_values}

C24_Step ==
    \A index \in todo \ todo' :
        /\ \A c \in (DOMAIN new_values) \ {index} : new_values'[c] = new_values[c]
        /\ DOMAIN new_values' = DOMAIN new_values
        /\ UNCHANGED <<id_flatten_maps, origin_values, contributions>>
        /\ todo' = {} => \E prior \in HandedBuffers : new_values' = BufferOf(prior)

C24_UnitsIndependent == [][C24_Step]_vars

C24_Witness ==
    /\ todo = {}
    /\ Cardinality(DOMAIN origin_values) = 2
    /\ \E c \in DOMAIN new_values :
          /\ total_sim[c] # Rat(1)
          /\ new_values[c] # CellValuesOverlap(id_flatten_maps, origin_values, Rat(0), c,
                                               CellContainsPixel, contributions)

(***************************************************************************)
(* C25.  value_interpolation goes from start to end: with the curve        *)
(* linear, cosine or exponential, power > 0 (and start # 0 for             *)
(* exponential), it returns start at x = 0 and end at x = 1.               *)
(***************************************************************************)
EndpointCase ==
    /\ interp_args.interpolate_function \in {"linear", "cosine", "exponential"}
    /\ interp_args.x \in {Rat(0), Rat(1)}
    /\ RGeq(interp_args.power, Rat(0)) /\ interp_args.power # Rat(0)
    /\ interp_args.interpolate_function = "exponential" => interp_args.ends[1] # Rat(0)

C25_StartToEnd ==
    (interp_out.result # "pending" /\ EndpointCase) =>
        /\ interp_out.result = "returned"
        /\ interp_out.value = IF interp_args.x = Rat(0) THEN interp_args.ends[1]
                              ELSE interp_args.ends[2]

(***************************************************************************)
(* C22.  As claimed: a ResizeOverlap hands both resizes, to the size of    *)
(* the map and back, a corner alignment that is enabled for the smooth     *)
(* modes linear, bilinear, bicubic and trilinear and disabled for the      *)
(* nearest family.                                                         *)
(***************************************************************************)
NearestFamily == {"nearest", "nearest-exact", "area"}

Resizing == adapter = "ResizeOverlap" /\ apc = "super" /\ pc = "call"

Resized == adapter = "ResizeOverlap" /\ apc = "done" /\ aresult = "returned"
               /\ ~ShortCircuits(args.alpha_out)

MapSize == <<CorrMapSize(args.corr_map)[2], CorrMapSize(args.corr_map)[1]>>

BothResizesWith(align_corners) ==
    /\ Resizing =>
          storage["frame_seq"] = FInterpolate(frame_seq.values, frame_seq.shapes, MapSize,
                                              interpolate_mode, align_corners)
    /\ Resized =>
          aret.values = TorchWhere(FInterpolate(ret, args.frame_shapes, frame_seq.shapes[0],
                                                interpolate_mode, align_corners),
                                   frame_seq.values)

C22_CornerAlignmentEnabled ==
    /\ \A mode \in SmoothModes : AlignCorners(mode) = "True"
    /\ \A mode \in NearestFamily : AlignCorners(mode) # "True"
    /\ BothResizesWith(IF interpolate_mode \in SmoothModes THEN "True" ELSE "None")

(***************************************************************************)
(* C22, amended.  The corner alignment handed to both resizes is never     *)
(* enabled: it is False for the smooth modes linear, bilinear, bicubic and *)
(* trilinear, and None (the argument left unset) for every other mode.     *)
(***************************************************************************)
C22_CornerAlignmentDisabled ==
    /\ \A mode \in SmoothModes : AlignCorners(mode) = "False"
    /\ \A mode \in NearestFamily : AlignCorners(mode) = "None"
    /\ BothResizesWith(IF interpolate_mode \in SmoothModes THEN "False" ELSE "None")

C22_Witness ==
    /\ Resizing
    /\ interpolate_mode = "bilinear"
    /\ frame_seq.shapes[0] = <<1, 2>>
    /\ MapSize = <<1, 1>>
    /\ storage["frame_seq"] # FInterpolate(frame_seq.values, frame_seq.shapes, MapSize,
                                           interpolate_mode, "True")

C26_InstancesIsolated ==
    \A inst \in Instances :
        \A i \in DOMAIN dicts[inst] : dicts[inst][i].val[1] = inst

(***************************************************************************)
(* C27.  After every delete the pool holds at most USELESS_CACHE_MAX_COUNT *)
(* entries; the entries a delete removes from the pool are the ones        *)
(* deleted longest ago; and the delete of a key that is not live in the    *)
(* object changes neither the object nor the pool.                         *)
(***************************************************************************)
C27_Step ==
    \A inst \in Instances, id \in HotId .. LastId :
        CacheDelete(inst, id) =>
            LET key == KeyOf(id)
                order == Append(SelectSeq(deletions, LAMBDA k : k # key), key)
                evicted == (KeysOf(ToBeDeleted) \cup {key}) \ KeysOf(ToBeDeleted')
            IN  /\ Len(ToBeDeleted') <= USELESS_CACHE_MAX_COUNT
                /\ ~Has(dicts[inst], key) => UNCHANGED <<dicts, ToBeDeleted>>
                /\ Has(dicts[inst], key) =>
                      evicted = {order[i] : i \in 1 .. Cardinality(evicted)}

C27_PoolBoundedOldestFirst == [][C27_Step]_vars

(***************************************************************************)
(* C28.  Every node the NodePool was handed or created had ON_DESTROY      *)
(* called exactly once if it can no longer be retrieved from the pool, and *)
(* never if it still can, as a live entry or from the to-be-deleted pool.  *)
(***************************************************************************)
PoolNodes ==
    {<<"NodePool", HotId, n>> : n \in 0 .. (stores["NodePool"] - 1)}
        \cup (IF walker = "NodePool"
              THEN {<<"NodePool", id, 0>> : id \in (HotId + 1) .. cursor}
              ELSE {})

Retrievable(node) ==
    \/ \E i \in DOMAIN dicts["NodePool"] : dicts["NodePool"][i].val = node
    \/ \E i \in DOMAIN ToBeDeleted : ToBeDeleted[i].val = node

OnDestroyCalls(node) == IF node \in DOMAIN destroyed THEN destroyed[node] ELSE 0

C28_DestroyedExactlyOnce ==
    \A node \in PoolNodes : OnDestroyCalls(node) = IF Retrievable(node) THEN 0 ELSE 1

(***************************************************************************)
(* C29.  Once run() has started, wherever Exit() is called, run() goes     *)
(* through the release phase (beforeRelease, Manager._RunRelease,          *)
(* afterRelease) exactly once and returns with Stage = ENDED.  (In the     *)
(* first run() the flag can only have been set while it ran.)              *)
(***************************************************************************)
C29_ExitReleases ==
    (runs = 1 /\ epc = "returned") =>
        /\ released = ReleaseSteps
        /\ stage = "ENDED"

(***************************************************************************)
(* C30.  The stage-changed event fires once for each assignment that       *)
(* changes Stage and never for an assignment of the stage that is already  *)
(* current; the stages notified come in the order BEFORE_PREPARE,          *)
(* AFTER_PREPARE, then BEFORE_FRAME_BEGIN, BEFORE_FRAME_RUN,               *)
(* BEFORE_FRAME_END frame by frame, then BEFORE_RELEASE, ENDED; and a      *)
(* frame stage is notified only after AFTER_PREPARE and before             *)
(* BEFORE_RELEASE of its run().                                            *)
(***************************************************************************)
FrameStages == {"BEFORE_FRAME_BEGIN", "BEFORE_FRAME_RUN", "BEFORE_FRAME_END"}

\* the stages that can be notified right after a stage
NotifiedNext(s) ==
    CASE s = "INIT" -> {"BEFORE_PREPARE"}
      [] s = "BEFORE_PREPARE" -> {"AFTER_PREPARE"}
      [] s = "AFTER_PREPARE" -> {"BEFORE_FRAME_BEGIN", "BEFORE_RELEASE"}
      [] s = "BEFORE_FRAME_BEGIN" -> {"BEFORE_FRAME_RUN", "BEFORE_RELEASE"}
      [] s = "BEFORE_FRAME_RUN" -> {"BEFORE_FRAME_END", "BEFORE_RELEASE"}
      [] s = "BEFORE_FRAME_END" -> {"BEFORE_FRAME_BEGIN", "BEFORE_RELEASE"}
      [] s = "BEFORE_RELEASE" -> {"ENDED"}
      [] s = "ENDED" -> {"BEFORE_PREPARE"}

C30_Step ==
    /\ invoked' = IF stage' # stage THEN Append(invoked, stage') ELSE invoked
    /\ \A i \in 2 .. Len(invoked') :
          /\ invoked'[i] \in NotifiedNext(invoked'[i - 1])
          /\ invoked'[i] \in FrameStages =>
                invoked'[i - 1] \in FrameStages \cup {"AFTER_PREPARE"}

C30_StageEvents == [][C30_Step]_vars

C30_Witness ==
    /\ runs = 3
    /\ epc = "beforePrepare"
    /\ invoked = <<"INIT", "BEFORE_PREPARE", "AFTER_PREPARE", "BEFORE_FRAME_BEGIN",
                   "BEFORE_FRAME_RUN", "BEFORE_FRAME_END", "BEFORE_RELEASE", "ENDED",
                   "BEFORE_PREPARE">>

====
